---- MODULE Spec2Model ----
(***************************************************************************)
(* A model of mygrad/tensor_base.py: the Tensor node of a reverse-mode     *)
(* automatic-differentiation graph.                                        *)
(*                                                                         *)
(* Tensors live in an arena (the sequence `tensors`, in creation order);   *)
(* a Tensor is named by its index.  numpy arrays are objects with          *)
(* identity: `arrays` is the heap of array objects and a Tensor's `data`   *)
(* field is a reference into it, so that two Tensors sharing one array     *)
(* object is something the model can tell from two equal arrays.           *)
(*                                                                         *)
(* Numbers are exact rationals (numpy's true division leaves the           *)
(* integers); arrays are 0-D or 1-D of length VecLen.                      *)
(***************************************************************************)
EXTENDS Integers, Sequences, FiniteSets, TLC

(***************************************************************************)
(* Bounds of the model.                                                    *)
(***************************************************************************)
\* the length of every 1-D array
VecLen == 2
\* calls made in one behaviour (the arena and the grad buffers grow without bound)
MaxCalls == 3

(***************************************************************************)
(* Numbers: rationals n/d in lowest terms, d > 0.                          *)
(***************************************************************************)
Abs(i) == IF i < 0 THEN -i ELSE i

RECURSIVE GCD(_, _)
GCD(a, b) == IF b = 0 THEN a ELSE GCD(b, a % b)

Norm(n, d) ==
    LET s == IF d < 0 THEN -1 ELSE 1
        g == GCD(Abs(n), Abs(d))
    IN  [n |-> (s * n) \div g, d |-> (s * d) \div g]

Num(i) == [n |-> i, d |-> 1]

NumAdd(x, y) == Norm(x.n * y.d + y.n * x.d, x.d * y.d)
NumSub(x, y) == Norm(x.n * y.d - y.n * x.d, x.d * y.d)
NumMul(x, y) == Norm(x.n * y.n, x.d * y.d)
NumDiv(x, y) == Norm(x.n * y.d, x.d * y.n)

(***************************************************************************)
(* numpy arrays: an element type, a dimensionality (0 or 1) and the        *)
(* elements (one element for a 0-D array, VecLen for a 1-D one).           *)
(***************************************************************************)
Scalar(dt, x) == [dtype |-> dt, ndim |-> 0, v |-> <<x>>]
Vector(dt, s) == [dtype |-> dt, ndim |-> 1, v |-> s]

\* a faulty variant of IsNumber: text passes for numbers
IsNumberOrText(dt) == dt \in {"int", "float", "complex", "str"}

\* np.issubdtype(dtype, np.number): integers, floats and complex numbers;
\* numpy's bool_ and str_ are not under np.number
IsNumber(dt) == dt \in {"int", "float", "complex"}

\* the element of array a that position i of a broadcast result reads
At(a, i) == IF a.ndim = 0 THEN a.v[1] ELSE a.v[i]

\* numpy's type promotion, for the element types of the model
Promote(d1, d2) == IF d1 = "float" \/ d2 = "float" THEN "float" ELSE "int"

\* an elementwise binary operation with broadcasting; f is "+", "-", "*", "/"
NumBin(f, x, y) ==
    CASE f = "+" -> NumAdd(x, y)
      [] f = "-" -> NumSub(x, y)
      [] f = "*" -> NumMul(x, y)
      [] f = "/" -> NumDiv(x, y)

ArrBin(f, a, b) ==
    LET dt == IF f = "/" THEN "float" ELSE Promote(a.dtype, b.dtype)
    IN  IF a.ndim = 0 /\ b.ndim = 0
        THEN Scalar(dt, NumBin(f, a.v[1], b.v[1]))
        ELSE Vector(dt, [i \in 1..VecLen |-> NumBin(f, At(a, i), At(b, i))])

RECURSIVE SeqSum(_)
SeqSum(s) == IF s = <<>> THEN Num(0) ELSE NumAdd(s[1], SeqSum(Tail(s)))

\* np.sum(a) over all axes: a 0-D array
ArrSum(a) == Scalar(a.dtype, SeqSum(a.v))

\* np.ones(shape, dtype=float) for a 1-D shape
Ones == Vector("float", [i \in 1..VecLen |-> Num(1)])

\* the array g brought to dimensionality nd: summed over the broadcast axis
\* when nd = 0, repeated along it when nd = 1
ToShape(g, nd) ==
    IF g.ndim = nd THEN g
    ELSE IF nd = 0 THEN ArrSum(g)
    ELSE Vector(g.dtype, [i \in 1..VecLen |-> g.v[1]])

NoZero(a) == \A i \in 1..Len(a.v) : a.v[i].n # 0

(***************************************************************************)
(* The state.                                                              *)
(*   arrays   the heap of numpy array objects                              *)
(*   tensors  the arena of Tensor objects; for each its fields data (a     *)
(*            reference into arrays), grad (<<>> for None, <<a>> for the   *)
(*            array a), constant (_constant), scalar_only (_scalar_only)   *)
(*            and creator (op "None" for None, else the Operation          *)
(*            instance: its class and the Tensors it holds as inputs)      *)
(*   last     the call made last and how it ended                          *)
(*   ncalls   calls made so far                                            *)
(***************************************************************************)
VARIABLES arrays, tensors, last, ncalls

vars == <<arrays, tensors, last, ncalls>>

NoGrad == <<>>
NoCreator == [op |-> "None", scalar_only |-> FALSE, inputs |-> <<>>]

Ids == 1..Len(tensors)

\* the array object behind Tensor t of arena ts
DataOf(arrs, ts, t) == arrs[ts[t].data]
\* Tensor.ndim
NdimOf(arrs, ts, t) == DataOf(arrs, ts, t).ndim

(***************************************************************************)
(* The Operation classes.  The module operations is imported by            *)
(* tensor_base.py; an Operation class is known here by the arithmetic of   *)
(* its forward pass and by the scalar_only attribute it declares.          *)
(***************************************************************************)
Kinds == {"Add", "Subtract", "Multiply", "Divide", "Sum"}
Arity(k) == IF k = "Sum" THEN 1 ELSE 2
OpClass(k, so) == [kind |-> k, scalar_only |-> so]
\* the classes the operator methods of Tensor name
Library(k) == OpClass(k, FALSE)

\* Operation.__call__: the forward pass over the input arrays
Forward(k, as) ==
    CASE k = "Add"      -> ArrBin("+", as[1], as[2])
      [] k = "Subtract" -> ArrBin("-", as[1], as[2])
      [] k = "Multiply" -> ArrBin("*", as[1], as[2])
      [] k = "Divide"   -> ArrBin("/", as[1], as[2])
      [] k = "Sum"      -> ArrSum(as[1])

\* the forward pass is defined: the model leaves out numpy's inf and nan
Defined(k, as) == k = "Divide" => NoZero(as[2])

\* the gradient an Operation hands to its i-th input for incoming gradient g
InputGrad(k, as, i, g) ==
    LET raw ==
          CASE k = "Add"      -> g
            [] k = "Subtract" -> IF i = 1 THEN g
                                 ELSE ArrBin("*", Scalar("int", Num(-1)), g)
            [] k = "Multiply" -> ArrBin("*", g, as[3 - i])
            [] k = "Divide"   -> IF i = 1 THEN ArrBin("/", g, as[2])
                                 ELSE ArrBin("/",
                                        ArrBin("*", ArrBin("*", Scalar("int", Num(-1)), g), as[1]),
                                        ArrBin("*", as[2], as[2]))
            [] k = "Sum"      -> g
    IN  ToShape(raw, as[i].ndim)

(***************************************************************************)
(* Tensor.__init__                                                         *)
(***************************************************************************)
\* an argument x: a Tensor of the arena, or anything else (array_like)
TensorArg(t) == [kind |-> "tensor", id |-> t, arr |-> Scalar("int", Num(0))]
RawArg(a) == [kind |-> "raw", id |-> 0, arr |-> a]

\* a faulty variant of MkTensor: grad starts as an array of zeros
MkTensorZeroGrad(d, c, so, cr) ==
    [data |-> d, grad |-> <<Scalar("float", Num(0))>>, constant |-> c,
     scalar_only |-> so, creator |-> cr]

\* the object __init__ leaves behind
MkTensor(d, c, so, cr) ==
    [data |-> d, grad |-> NoGrad, constant |-> c, scalar_only |-> so, creator |-> cr]

\* self.data for a Tensor argument: x.data, the same array object
SharedData(h, t) == h.tensors[t].data

\* a faulty variant of TensorInit: the array of a Tensor argument is copied
TensorInitCopying(h, x, c, so, cr) ==
    IF x.kind = "raw" /\ ~IsNumber(x.arr.dtype)
    THEN [err |-> "TypeError", h |-> h]
    ELSE [err |-> "none",
          h |-> [arrays |-> Append(h.arrays, IF x.kind = "tensor"
                                             THEN h.arrays[h.tensors[x.id].data]
                                             ELSE x.arr),
                 tensors |-> Append(h.tensors,
                                    MkTensor(Len(h.arrays) + 1, c, so, cr))]]

\* Tensor(x, constant=c, _scalar_only=so, _creator=cr) on heap h = [arrays, tensors]:
\* the error raised ("none" when none) and the heap afterwards
TensorInit(h, x, c, so, cr) ==
    IF x.kind = "tensor"
    THEN [err |-> "none",
          h |-> [arrays |-> h.arrays,
                 tensors |-> Append(h.tensors, MkTensor(SharedData(h, x.id), c, so, cr))]]
    ELSE IF ~IsNumber(x.arr.dtype)
    THEN [err |-> "TypeError", h |-> h]
    ELSE [err |-> "none",
          h |-> [arrays |-> Append(h.arrays, x.arr),
                 tensors |-> Append(h.tensors,
                                    MkTensor(Len(h.arrays) + 1, c, so, cr))]]

(***************************************************************************)
(* Tensor._op                                                              *)
(***************************************************************************)
\* lines 80-84: every input that is no Tensor becomes a constant Tensor;
\* the result carries the ids of tensor_vars
RECURSIVE Coerce(_, _, _)
Coerce(h, xs, ids) ==
    IF xs = <<>> THEN [err |-> "none", h |-> h, ids |-> ids]
    ELSE IF xs[1].kind = "tensor"
    THEN Coerce(h, Tail(xs), Append(ids, xs[1].id))
    ELSE LET r == TensorInit(h, xs[1], TRUE, FALSE, NoCreator)
         IN  IF r.err # "none" THEN [err |-> r.err, h |-> h, ids |-> ids]
             ELSE Coerce(r.h, Tail(xs), Append(ids, Len(r.h.tensors)))

\* a faulty variant of IsConst: one constant input makes the result constant
IsConstAny(ts, ids) == \E i \in 1..Len(ids) : ts[ids[i]].constant

\* line 89
IsConst(ts, ids) == \A i \in 1..Len(ids) : ts[ids[i]].constant

\* a faulty variant of ScalarOnly: the declaration of the Operation counts whatever
\* the inputs are
ScalarOnlyDeclared(ts, ids, declared) ==
    \/ declared
    \/ \E i \in 1..Len(ids) : ts[ids[i]].scalar_only /\ ~ts[ids[i]].constant

\* lines 91-93
ScalarOnly(ts, ids, declared) ==
    \/ declared /\ ~IsConst(ts, ids)
    \/ \E i \in 1..Len(ids) : ts[ids[i]].scalar_only /\ ~ts[ids[i]].constant

\* _op(Op, *xs) on heap h0: the error raised and the heap afterwards; the new
\* Tensor is the last of the arena
TensorOp(h0, Op, xs) ==
    LET co == Coerce(h0, xs, <<>>)
    IN  IF co.err # "none" THEN [err |-> co.err, h |-> h0]
        ELSE LET ts == co.h.tensors
                 as == [i \in 1..Len(co.ids) |-> co.h.arrays[ts[co.ids[i]].data]]
                 out == Forward(Op.kind, as)
                 f == [op |-> Op.kind, scalar_only |-> Op.scalar_only, inputs |-> co.ids]
             IN  TensorInit(co.h, RawArg(out), IsConst(ts, co.ids),
                            ScalarOnly(ts, co.ids, Op.scalar_only), f)

\* the arrays _op hands to the forward pass, to say when the model defines it
OpDefined(h, Op, xs) ==
    Defined(Op.kind,
            [i \in 1..Len(xs) |-> IF xs[i].kind = "tensor"
                                   THEN h.arrays[h.tensors[xs[i].id].data]
                                   ELSE xs[i].arr])

(***************************************************************************)
(* Tensor.backward and Tensor.null_gradients                               *)
(***************************************************************************)
\* a faulty variant of Accumulate: the gradient that comes in replaces the buffer
AccumulateOverwrite(old, g) == g

\* line 124: the buffer after a gradient g came in
Accumulate(old, g) == IF old = NoGrad THEN g ELSE ArrBin("+", old[1], g)

\* lines 119-122: the gradient backward() starts from when none is given
Seed(nd) == IF nd = 0 THEN Scalar("int", Num(1)) ELSE Ones

\* the arrays behind the inputs of creator c
InputArrays(arrs, ts, c) == [i \in 1..Len(c.inputs) |-> DataOf(arrs, ts, c.inputs[i])]

\* Tensor.backward(grad) from line 124 on, for the array g that lines 116-122
\* made of grad, and Operation.backward(grad) over the inputs from the i-th on:
\* the arena afterwards
RECURSIVE TensorBackward(_, _, _, _), OperationBackward(_, _, _, _, _)
TensorBackward(arrs, ts, t, g) ==
    LET ts1 == [ts EXCEPT ![t].grad = <<Accumulate(ts[t].grad, g)>>]
    IN  IF ts[t].creator.op # "None"
        THEN OperationBackward(arrs, ts1, ts[t].creator, g, 1)
        ELSE ts1

OperationBackward(arrs, ts, c, g, i) ==
    IF i > Len(c.inputs) THEN ts
    ELSE LET ts1 == IF ts[c.inputs[i]].constant THEN ts
                    ELSE TensorBackward(arrs, ts, c.inputs[i],
                                        InputGrad(c.op, InputArrays(arrs, ts, c), i, g))
         IN  OperationBackward(arrs, ts1, c, g, i + 1)

\* a faulty variant of TensorNull: the creator is not asked to clear its inputs
TensorNullSelf(ts, t) == [ts EXCEPT ![t].grad = NoGrad]

\* Tensor.null_gradients() and Operation.null_gradients() over the inputs from
\* the i-th on: the arena afterwards
RECURSIVE TensorNull(_, _), OperationNull(_, _, _)
TensorNull(ts, t) ==
    LET ts1 == [ts EXCEPT ![t].grad = NoGrad]
    IN  IF ts[t].creator.op # "None"
        THEN OperationNull(ts1, ts[t].creator, 1)
        ELSE ts1

OperationNull(ts, c, i) ==
    IF i > Len(c.inputs) THEN ts
    ELSE OperationNull(TensorNull(ts, c.inputs[i]), c, i + 1)

(***************************************************************************)
(* What the caller passes in.                                              *)
(***************************************************************************)
Int2 == Scalar("int", Num(2))
Int3 == Scalar("int", Num(3))
IntVec == Vector("int", [i \in 1..VecLen |-> Num(i + 1)])
\* array_like data numpy gives a non-numeric element type: "a", True
Str == Scalar("str", Num(0))
Bool == Scalar("bool", Num(1))

\* the value an in-place write stores
Written == Num(5)

NoArg == [kind |-> "none", id |-> 0, arr |-> Scalar("int", Num(0))]

Heap == [arrays |-> arrays, tensors |-> tensors]

\* a call: the method, the Tensor it is called on (0: none), its argument, the
\* error it raised ("none": none) and whether every grad was None when it began
Call(op, t, arg, err) ==
    [op |-> op, t |-> t, arg |-> arg, err |-> err,
     fresh |-> \A i \in Ids : tensors[i].grad = NoGrad]

\* one more call
Counted == ncalls < MaxCalls /\ ncalls' = ncalls + 1

\* the step a call that builds graph takes, r being what TensorInit or TensorOp
\* returned
Built(r, call) ==
    /\ Counted
    /\ arrays' = r.h.arrays
    /\ tensors' = r.h.tensors
    /\ last' = call

(***************************************************************************)
(* The calls.                                                              *)
(***************************************************************************)
Init ==
    /\ arrays = <<>>
    /\ tensors = <<>>
    /\ last = [op |-> "start", t |-> 0, arg |-> NoArg, err |-> "none", fresh |-> TRUE]
    /\ ncalls = 0

\* Tensor(x, constant=c, _scalar_only=so) for array_like x
Construct(x, c, so) ==
    LET r == TensorInit(Heap, RawArg(x), c, so, NoCreator)
    IN  Built(r, Call("Tensor", 0, RawArg(x), r.err))

\* Tensor(t, constant=c, _scalar_only=so) for a Tensor t
ConstructFrom(t, c, so) ==
    LET r == TensorInit(Heap, TensorArg(t), c, so, NoCreator)
    IN  Built(r, Call("TensorOf", t, TensorArg(t), r.err))

MethodKind(m) ==
    CASE m \in {"__add__", "__radd__"}         -> "Add"
      [] m \in {"__sub__", "__rsub__"}         -> "Subtract"
      [] m \in {"__truediv__", "__rtruediv__"} -> "Divide"
      [] m \in {"__mul__", "__rmul__"}         -> "Multiply"

\* self + other, ...: Python calls the method of the left operand
Direct == {"__add__", "__sub__", "__truediv__", "__mul__"}
\* other + self, ...: Python calls the reflected method for a left operand
\* that is no Tensor
Reflected == {"__radd__", "__rsub__", "__rtruediv__", "__rmul__"}
Methods == Direct \cup Reflected

\* the inputs _op gets from the binary operator method m of self
MethodInputs(m, self, other) ==
    IF m \in Direct
    THEN <<TensorArg(self), other>>
    ELSE <<other, TensorArg(self)>>

\* self.m(other): self + other, other + self, ...
Binary(m, self, other) ==
    LET xs == MethodInputs(m, self, other)
        r == TensorOp(Heap, Library(MethodKind(m)), xs)
    IN  /\ OpDefined(Heap, Library(MethodKind(m)), xs)
        /\ Built(r, Call(m, self, other, r.err))

\* -self and ~self: both are -1 * self, which is self.__rmul__(-1)
Negate(m, self) ==
    LET r == TensorOp(Heap, Library("Multiply"),
                      <<RawArg(Scalar("int", Num(-1))), TensorArg(self)>>)
    IN  Built(r, Call(m, self, NoArg, r.err))

\* +self: self
Pos(self) ==
    /\ Counted
    /\ last' = Call("__pos__", self, NoArg, "none")
    /\ UNCHANGED <<arrays, tensors>>

\* self.sum()
Sum(self) ==
    LET r == TensorOp(Heap, Library("Sum"), <<TensorArg(self)>>)
    IN  Built(r, Call("sum", self, NoArg, r.err))

\* Tensor._op(Op, *xs) for an Operation class Op of any declaration
Op(cls, xs) ==
    LET r == TensorOp(Heap, cls, xs)
    IN  /\ OpDefined(Heap, cls, xs)
        /\ Built(r, Call("_op", 0, NoArg, r.err))

\* a faulty variant of Copy: the copy is made of self, not of np.copy(self.data)
CopyShared(self) ==
    LET r == TensorInit(Heap, TensorArg(self),
                        tensors[self].constant, tensors[self].scalar_only, NoCreator)
    IN  Built(r, Call("__copy__", self, NoArg, r.err))

\* copy.copy(self): np.copy makes a new array object
Copy(self) ==
    LET r == TensorInit(Heap, RawArg(DataOf(arrays, tensors, self)),
                        tensors[self].constant, tensors[self].scalar_only, NoCreator)
    IN  Built(r, Call("__copy__", self, NoArg, r.err))

\* lines 116-122: the array the call starts from
Incoming(self, grad) ==
    IF grad.kind = "none" THEN Seed(NdimOf(arrays, tensors, self))
    ELSE IF grad.kind = "tensor" THEN DataOf(arrays, tensors, grad.id)
    ELSE grad.arr

\* self.backward(grad)
Backward(self, grad) ==
    /\ Counted
    /\ tensors' = TensorBackward(arrays, tensors, self, Incoming(self, grad))
    /\ last' = Call("backward", self, grad, "none")
    /\ UNCHANGED arrays

\* self.null_gradients()
NullGradients(self) ==
    /\ Counted
    /\ tensors' = TensorNull(tensors, self)
    /\ last' = Call("null_gradients", self, NoArg, "none")
    /\ UNCHANGED arrays

\* self.data[i] = Written (self.data[()] = Written for a 0-D array): numpy
\* writes into the array object
SetItem(self, i) ==
    /\ Counted
    /\ i <= Len(DataOf(arrays, tensors, self).v)
    /\ arrays' = [arrays EXCEPT ![tensors[self].data].v[i] = Written]
    /\ last' = Call("setitem", self, NoArg, "none")
    /\ UNCHANGED tensors

(***************************************************************************)
(* The calls over sets of arguments.                                       *)
(***************************************************************************)
Flags == BOOLEAN \X BOOLEAN
Tensors == { TensorArg(t) : t \in Ids }
Raws(S) == { RawArg(a) : a \in S }
\* gradients of the shape of Tensor self among the arguments G
Shaped(self, G) ==
    { g \in G : \/ g.kind = "none"
                \/ g.kind = "raw" /\ g.arr.ndim = NdimOf(arrays, tensors, self)
                \/ g.kind = "tensor" /\ NdimOf(arrays, tensors, g.id)
                                        = NdimOf(arrays, tensors, self) }
Inputs(k, t, u) == IF Arity(k) = 1 THEN <<TensorArg(t)>> ELSE <<TensorArg(t), TensorArg(u)>>

Constructs(X, F) == \E x \in X, f \in F : Construct(x, f[1], f[2])
ConstructsFrom(F) == \E t \in Ids, f \in F : ConstructFrom(t, f[1], f[2])
Binaries(M, O) == \E m \in M, t \in Ids, o \in O : Binary(m, t, o)
Negates == \E m \in {"__neg__", "__invert__"}, t \in Ids : Negate(m, t)
Poses == \E t \in Ids : Pos(t)
Sums == \E t \in Ids : Sum(t)
Ops(K, D) == \E k \in K, so \in D, t \in Ids, u \in Ids : Op(OpClass(k, so), Inputs(k, t, u))
Copies == \E t \in Ids : Copy(t)
Backwards(G) == \E t \in Ids : \E g \in Shaped(t, G) : Backward(t, g)
NullsGradients == \E t \in Ids : NullGradients(t)
SetsItem == \E t \in Ids, i \in 1..VecLen : SetItem(t, i)

(***************************************************************************)
(* Spec: every call, from an empty arena.                                  *)
(***************************************************************************)
Next ==
    \/ Constructs({Int2, IntVec, Str}, Flags)
    \/ ConstructsFrom({<<FALSE, FALSE>>})
    \/ Binaries({"__sub__"}, Tensors)
    \/ Binaries({"__rtruediv__"}, Raws({Int3}))
    \/ Negates
    \/ Poses
    \/ Sums
    \/ Ops({"Sum"}, {TRUE})
    \/ Copies
    \/ Backwards({NoArg} \cup Raws({Int2, IntVec}) \cup Tensors)
    \/ NullsGradients
    \/ SetsItem

Spec == Init /\ [][Next]_vars

(***************************************************************************)
(* SpecBuild: the calls that go through _op, over every flag of the        *)
(* inputs, every operator method and Operation classes that declare        *)
(* scalar_only.                                                            *)
(***************************************************************************)
NextBuild ==
    \/ Constructs({Int2, Str, Bool}, Flags)
    \/ Binaries(Direct, Tensors)
    \/ Binaries(Reflected, Raws({Int3, Str}))
    \/ Negates
    \/ Sums
    \/ Ops({"Multiply", "Sum"}, {TRUE})

SpecBuild == Init /\ [][NextBuild]_vars

(***************************************************************************)
(* SpecChain: arithmetic, backward and null_gradients after                *)
(*     a = Tensor(2); b = Tensor(3, constant=c)                            *)
(***************************************************************************)
Empty == [arrays |-> <<>>, tensors |-> <<>>]

Leaves(c) ==
    TensorInit(TensorInit(Empty, RawArg(Int2), FALSE, FALSE, NoCreator).h,
               RawArg(Int3), c, FALSE, NoCreator).h

InitChain ==
    /\ \E c \in BOOLEAN : arrays = Leaves(c).arrays /\ tensors = Leaves(c).tensors
    /\ last = [op |-> "start", t |-> 0, arg |-> NoArg, err |-> "none", fresh |-> TRUE]
    /\ ncalls = 0

NextChain ==
    \/ Binaries({"__add__", "__mul__", "__truediv__"}, {TensorArg(1), TensorArg(2)})
    \/ Backwards({NoArg})
    \/ NullsGradients

SpecChain == InitChain /\ [][NextChain]_vars

(***************************************************************************)
(* The properties.                                                         *)
(***************************************************************************)
\* the Tensor made last
New == Len(tensors)
HasCreator(t) == tensors[t].creator.op # "None"
InputsOf(t) == { tensors[t].creator.inputs[i] : i \in 1..Len(tensors[t].creator.inputs) }

\* the Tensors reachable from t through creator and input links, t included
RECURSIVE Upstream(_)
Upstream(t) == {t} \cup UNION { Upstream(u) : u \in InputsOf(t) }

Ndim(t) == NdimOf(arrays, tensors, t)

\* C1: backward() with no gradient on a Tensor that is scalar_only and not 0-D
\* fails with InvalidNonScalarBackprop.
C1_NonScalarBackwardRaises ==
    (/\ last.op = "backward"
     /\ last.arg.kind = "none"
     /\ tensors[last.t].scalar_only
     /\ Ndim(last.t) # 0)
    => last.err = "InvalidNonScalarBackprop"

\* C2: a Tensor with constant = True has grad None, in every state.
C2_ConstantHasNoGrad ==
    \A t \in Ids : tensors[t].constant => tensors[t].grad = NoGrad

\* C3: the constant flag of every Tensor _op made is the AND of the constant
\* flags of its inputs; an operand that is no Tensor came in as a constant leaf;
\* and the Tensor is constant exactly when every leaf upstream of it is.
C3_ConstantIsAndOfInputs ==
    /\ \A t \in Ids : HasCreator(t) =>
          (tensors[t].constant <=> \A u \in InputsOf(t) : tensors[u].constant)
    /\ (last.op \in Methods /\ last.arg.kind = "raw" /\ last.err = "none") =>
          LET k == IF last.op \in Direct THEN 2 ELSE 1
              co == tensors[New].creator.inputs[k]
          IN  /\ tensors[co].constant
              /\ ~HasCreator(co)
              /\ DataOf(arrays, tensors, co) = last.arg.arr
              /\ tensors[New].constant = tensors[last.t].constant
    /\ \A t \in Ids : HasCreator(t) =>
          (tensors[t].constant <=>
              \A u \in Upstream(t) : ~HasCreator(u) => tensors[u].constant)

\* C3's case: a non-constant result, two operations deep, of a constant
\* operand that was no Tensor and a non-constant one
C3_Witness ==
    /\ last.op \in Reflected /\ last.arg.kind = "raw" /\ last.err = "none"
    /\ ~tensors[New].constant
    /\ \E u \in InputsOf(New) : tensors[u].constant
    /\ \E u \in InputsOf(New) : HasCreator(u)

\* C4 as stated: scalar_only of a Tensor _op made holds iff its Operation
\* declares scalar_only or some non-constant input is scalar_only.
C4_ScalarOnlyIffDeclaredOrInput ==
    \A t \in Ids : HasCreator(t) =>
        (tensors[t].scalar_only <=>
            \/ tensors[t].creator.scalar_only
            \/ \E u \in InputsOf(t) : tensors[u].scalar_only /\ ~tensors[u].constant)

\* C4 amended: scalar_only of a Tensor _op made holds iff its Operation declares
\* scalar_only and not every input is constant, or some non-constant input is
\* scalar_only.
C4_ScalarOnlyUnlessConstant ==
    \A t \in Ids : HasCreator(t) =>
        (tensors[t].scalar_only <=>
            \/ /\ tensors[t].creator.scalar_only
               /\ \E u \in InputsOf(t) : ~tensors[u].constant
            \/ \E u \in InputsOf(t) : tensors[u].scalar_only /\ ~tensors[u].constant)

\* C4's case: an Operation that declares scalar_only, over constant inputs one
\* of which is scalar_only: the result is not scalar_only
C4_Witness ==
    \E t \in Ids : /\ HasCreator(t) /\ tensors[t].creator.scalar_only
                   /\ \A u \in InputsOf(t) : tensors[u].constant
                   /\ \E u \in InputsOf(t) : tensors[u].scalar_only
                   /\ ~tensors[t].scalar_only

\* the gradients that reach Tensor x when gradient g arrives at Tensor t: one
\* for each path from t to x, depth-first in the order of the inputs
RECURSIVE Contributions(_, _, _), InputContributions(_, _, _, _)
Contributions(t, g, x) ==
    (IF t = x THEN <<g>> ELSE <<>>) \o InputContributions(t, g, x, 1)

InputContributions(t, g, x, i) ==
    IF i > Len(tensors[t].creator.inputs) THEN <<>>
    ELSE Contributions(tensors[t].creator.inputs[i],
                       InputGrad(tensors[t].creator.op,
                                 InputArrays(arrays, tensors, tensors[t].creator), i, g),
                       x)
         \o InputContributions(t, g, x, i + 1)

\* the sum of the arrays of a sequence, as a grad buffer
RECURSIVE Total(_)
Total(gs) ==
    IF gs = <<>> THEN NoGrad
    ELSE IF Len(gs) = 1 THEN <<gs[1]>>
    ELSE <<ArrBin("+", Total(SubSeq(gs, 1, Len(gs) - 1))[1], gs[Len(gs)])>>

IsLeaf(t) == ~HasCreator(t) /\ ~tensors[t].constant /\ Ndim(t) = 0
ValueOf(t) == DataOf(arrays, tensors, t).v[1]

\* y = x + x
IsXPlusX(y, x) ==
    /\ tensors[y].creator.op = "Add" /\ tensors[y].creator.inputs = <<x, x>>
    /\ IsLeaf(x)

\* f = (a * b) + a with a = 2, b = 3
IsChain(f, m, a, b) ==
    /\ tensors[f].creator.op = "Add" /\ tensors[f].creator.inputs = <<m, a>>
    /\ tensors[m].creator.op = "Multiply" /\ tensors[m].creator.inputs = <<a, b>>
    /\ IsLeaf(a) /\ IsLeaf(b)
    /\ ValueOf(a) = Num(2) /\ ValueOf(b) = Num(3)

\* backward() was called on a 0-D Tensor of a graph in which every grad was None
FreshBackward ==
    /\ last.op = "backward" /\ last.arg.kind = "none" /\ last.fresh
    /\ Ndim(last.t) = 0

\* C5: after one backward() on a 0-D output of a graph whose grads were all
\* None, the grad of every non-constant Tensor upstream is the sum of the
\* contributions of the paths that lead to it: x.grad = 2 for y = x + x, and
\* a.grad = 4, b.grad = 2 for f = (a * b) + a with a = 2, b = 3.
C5_GradIsSumOverPaths ==
    FreshBackward =>
        /\ \A x \in Upstream(last.t) : ~tensors[x].constant =>
              /\ tensors[x].grad # NoGrad
              /\ tensors[x].grad = Total(Contributions(last.t, Scalar("int", Num(1)), x))
        /\ \A x \in Ids : IsXPlusX(last.t, x) => tensors[x].grad[1].v = <<Num(2)>>
        /\ \A m, a, b \in Ids : IsChain(last.t, m, a, b) =>
              /\ tensors[a].grad[1].v = <<Num(4)>>
              /\ tensors[b].grad[1].v = <<Num(2)>>

\* C5's case: backward() on f = (a * b) + a
C5_Witness ==
    FreshBackward /\ \E m, a, b \in Ids : IsChain(last.t, m, a, b)

\* C6: after t.null_gradients() grad is None on t and on every Tensor upstream
\* of it, and a second call would change nothing; a call on a graph without
\* gradients, and a second call in a row, leave every Tensor and array as it was.
C6_NullGradientsClearsUpstream ==
    /\ [](last.op = "null_gradients" =>
            /\ \A x \in Upstream(last.t) : tensors[x].grad = NoGrad
            /\ TensorNull(tensors, last.t) = tensors)
    /\ [][last'.op = "null_gradients" =>
            /\ arrays' = arrays
            /\ last'.fresh => tensors' = tensors
            /\ (last.op = "null_gradients" /\ last.t = last'.t) => tensors' = tensors]_vars

\* C6's case: null_gradients() on the output of an operation, after a backward
\* call, with a constant Tensor upstream
C6_Witness ==
    /\ last.op = "null_gradients" /\ ~last.fresh
    /\ HasCreator(last.t)
    /\ \E x \in Upstream(last.t) : tensors[x].constant

\* a fresh leaf: no creator, no grad
FreshLeaf(t) == tensors[t].creator = NoCreator /\ tensors[t].grad = NoGrad

\* the step writes into the array of Tensor t, the call before having been op
WritesAfter(op, t) == last.op = op /\ last'.op = "setitem" /\ last'.t = t

\* C7: copy(t) is a new Tensor with t's data, constant and scalar_only, no
\* creator, no grad and an array object of its own; a write into the array of
\* the copy leaves the array of t as it was, and the other way round.
C7_CopyIsDetached ==
    /\ [](last.op = "__copy__" =>
            /\ DataOf(arrays, tensors, New) = DataOf(arrays, tensors, last.t)
            /\ tensors[New].constant = tensors[last.t].constant
            /\ tensors[New].scalar_only = tensors[last.t].scalar_only
            /\ FreshLeaf(New)
            /\ \A u \in Ids \ {New} : tensors[u].data # tensors[New].data)
    /\ [][/\ WritesAfter("__copy__", New) =>
               DataOf(arrays', tensors', last.t) = DataOf(arrays, tensors, last.t)
          /\ WritesAfter("__copy__", last.t) =>
               DataOf(arrays', tensors', New) = DataOf(arrays, tensors, New)]_vars

\* C7's case: the copy of the scalar_only output of an operation
C7_Witness ==
    last.op = "__copy__" /\ HasCreator(last.t) /\ tensors[last.t].scalar_only

\* C8 as stated: Tensor(t) copies the array of t and is a fresh leaf with the
\* default flags; a write into its array leaves the array of t as it was.
C8_TensorOfCopiesArray ==
    /\ [](last.op = "TensorOf" =>
            /\ tensors[New].data # tensors[last.t].data
            /\ DataOf(arrays, tensors, New) = DataOf(arrays, tensors, last.t)
            /\ FreshLeaf(New)
            /\ ~tensors[New].constant /\ ~tensors[New].scalar_only)
    /\ [][WritesAfter("TensorOf", New) =>
            DataOf(arrays', tensors', last.t) = DataOf(arrays, tensors, last.t)]_vars

\* C8 amended: Tensor(t) holds the very array object of t (nothing is copied)
\* and is a fresh leaf with the default flags whatever t's creator, grad and
\* flags are; a write into its array shows in the array of t.
C8_TensorOfSharesArray ==
    /\ [](last.op = "TensorOf" =>
            /\ tensors[New].data = tensors[last.t].data
            /\ FreshLeaf(New)
            /\ ~tensors[New].constant /\ ~tensors[New].scalar_only)
    /\ [][WritesAfter("TensorOf", New) =>
            /\ \E i \in 1..VecLen : At(DataOf(arrays', tensors', last.t), i) = Written
            /\ DataOf(arrays', tensors', last.t) = DataOf(arrays', tensors', New)]_vars

\* C8's case: Tensor(t) for the scalar_only output t of an operation
C8_Witness ==
    last.op = "TensorOf" /\ HasCreator(last.t) /\ tensors[last.t].scalar_only

\* the element types numpy holds to be numbers, and the others, of the model
Numeric == {"int", "float"}
NonNumeric == {"str", "bool"}

\* the step constructs a Tensor from data that is no Tensor: Tensor(x), or the
\* operand of an operator method
ConstructsFromData ==
    \/ last'.op = "Tensor"
    \/ last'.op \in Methods /\ last'.arg.kind = "raw"

\* C9: constructing a Tensor from data of a non-numeric element type raises
\* (the TypeError of _check_valid_dtype is the error the specification calls
\* InvalidDataType) and no Tensor is made; from numeric data it does not raise.
C9_NonNumericDataRaises ==
    [][ConstructsFromData =>
          /\ last'.arg.arr.dtype \in NonNumeric =>
                /\ last'.err = "TypeError"
                /\ tensors' = tensors /\ arrays' = arrays
          /\ last'.arg.arr.dtype \in Numeric =>
                /\ last'.err = "none"
                /\ Len(tensors') > Len(tensors)]_vars

\* C9's case: Tensor("a") failed, in an arena that holds Tensors
C9_Witness ==
    /\ last.op = "Tensor" /\ last.arg.arr.dtype = "str" /\ last.err = "TypeError"
    /\ tensors # <<>>

\* the calls that build graph
Builders ==
    {"Tensor", "TensorOf", "__neg__", "__invert__", "__pos__", "sum", "_op", "__copy__"}
    \cup Methods

\* C10: a call that builds graph leaves every Tensor and array there was as it
\* was and makes its Tensors with grad None; a grad is set or changed by
\* backward alone and cleared by null_gradients alone.
C10_GradWrittenOnlyByBackward ==
    [][/\ last'.op \in Builders =>
             /\ Len(tensors') >= Len(tensors) /\ Len(arrays') >= Len(arrays)
             /\ \A t \in Ids : tensors'[t] = tensors[t]
             /\ \A k \in 1..Len(arrays) : arrays'[k] = arrays[k]
             /\ \A t \in (Len(tensors) + 1)..Len(tensors') : tensors'[t].grad = NoGrad
       /\ \A t \in Ids :
             /\ (tensors'[t].grad # tensors[t].grad /\ tensors'[t].grad # NoGrad)
                    => last'.op = "backward"
             /\ (tensors[t].grad # NoGrad /\ tensors'[t].grad = NoGrad)
                    => last'.op = "null_gradients"]_vars

\* C10's case: an operation made a Tensor in a graph that holds gradients
C10_Witness ==
    /\ last.op \in Builders /\ ~last.fresh /\ last.err = "none"
    /\ HasCreator(New)
    /\ \E t \in Ids : tensors[t].grad # NoGrad
====
